---- MODULE Spec2Model ----
(***************************************************************************)
(* Model of the ostree "fsck" builtin: ostree_builtin_fsck and its two     *)
(* helpers fsck_reachable_objects_from_commits and fsck_pack_files.        *)
(* The repository layer the driver calls (object listing, loading,         *)
(* structural validation, checksumming, commit traversal, pack listing)    *)
(* is modelled from its documented contract over an abstract store.        *)
(***************************************************************************)
EXTENDS Integers, Sequences, FiniteSets, TLC

(* ------------------------------ bounds -------------------------------- *)
\* at most this many faulty objects in one store
MaxFaults == 1
\* at most this many pack files in one store
MaxPacks == 2

(* --------------------------- object universe --------------------------- *)
COMMIT == "commit"
DIR_TREE == "dirtree"
DIR_META == "dirmeta"
RAW_FILE == "file"
ARCHIVED_FILE_META == "archive-meta"
ARCHIVED_FILE_CONTENT == "archive-content"

ObjectTypes ==
  {COMMIT, DIR_TREE, DIR_META, RAW_FILE, ARCHIVED_FILE_META, ARCHIVED_FILE_CONTENT}

CommitSums == {"c1", "c2"}
TreeSums == {"t1", "t2"}
MetaSums == {"m1"}
FileSums == {"f1"}
Checksums == CommitSums \cup TreeSums \cup MetaSums \cup FileSums

\* links stored inside the objects: commit -> root tree and root dirmeta,
\* tree -> files and (subtree, submeta) pairs.  c2 shares t1, m1 and f1 with c1.
CommitRoot(c) ==
  IF c = "c1" THEN [tree |-> "t1", meta |-> "m1"]
              ELSE [tree |-> "t2", meta |-> "m1"]
TreeFiles(t) == IF t = "t1" THEN {"f1"} ELSE {}
TreeSubdirs(t) == IF t = "t1" THEN {} ELSE {[tree |-> "t1", meta |-> "m1"]}

\* checksums a set of root commits depends on (used to populate a store)
RECURSIVE TreeClosure(_)
TreeClosure(t) ==
  LET subs == TreeSubdirs(t)
      below == UNION {TreeClosure(s.tree) \cup {s.meta} : s \in subs}
  IN {t} \cup TreeFiles(t) \cup below
Closure(roots) ==
  UNION {{c, CommitRoot(c).meta} \cup TreeClosure(CommitRoot(c).tree) : c \in roots}

ObjectName(checksum, objtype) == [checksum |-> checksum, objtype |-> objtype]

(* ------------------------------- store -------------------------------- *)
\* condition of one stored object
\*   absent           not in the store
\*   ok               decodes, validates, digest equals its name
\*   invalid          fails structural validation, digest equals its name
\*   corrupt          bytes altered: digest differs from its name
\*   invalid_corrupt  both
\*   unreadable       (files) the content stream fails while being read
ObjFaultKinds == {"absent", "invalid", "corrupt", "invalid_corrupt", "unreadable"}

FaultAllowed(c, k) == k = "unreadable" => c \in FileSums

BARE == "bare"
ARCHIVE == "archive"
RepoModes == {BARE, ARCHIVE}

\* object names under which a stored checksum is listed
NamesOf(c, mode) ==
  IF c \in CommitSums THEN {ObjectName(c, COMMIT)}
  ELSE IF c \in TreeSums THEN {ObjectName(c, DIR_TREE)}
  ELSE IF c \in MetaSums THEN {ObjectName(c, DIR_META)}
  ELSE IF mode = ARCHIVE
       THEN {ObjectName(c, ARCHIVED_FILE_META), ObjectName(c, ARCHIVED_FILE_CONTENT)}
       ELSE {ObjectName(c, RAW_FILE)}

\* ostree_repo_list_objects with OSTREE_REPO_LIST_OBJECTS_ALL
ListObjects(st, mode) ==
  UNION {NamesOf(c, mode) : c \in {x \in Checksums : st[x] # "absent"}}

(* -------------------------- commit traversal --------------------------- *)
FileNames(files, mode) == UNION {NamesOf(f, mode) : f \in files}

\* ostree_traverse_dirtree: an entry already in the accumulator is not
\* visited again; a tree that cannot be loaded aborts the traversal
RECURSIVE TraverseDirtree(_, _, _, _)
RECURSIVE TraverseSubdirs(_, _, _, _)
TraverseDirtree(st, mode, t, acc) ==
  LET name == ObjectName(t, DIR_TREE) IN
  IF name \in acc THEN [ok |-> TRUE, acc |-> acc]
  ELSE IF st[t] = "absent" THEN [ok |-> FALSE, acc |-> acc]
  ELSE TraverseSubdirs(st, mode, TreeSubdirs(t),
                       acc \cup {name} \cup FileNames(TreeFiles(t), mode))
TraverseSubdirs(st, mode, subs, acc) ==
  IF subs = {} THEN [ok |-> TRUE, acc |-> acc]
  ELSE LET s == CHOOSE x \in subs : TRUE
           r == TraverseDirtree(st, mode, s.tree, acc \cup {ObjectName(s.meta, DIR_META)})
       IN IF r.ok THEN TraverseSubdirs(st, mode, subs \ {s}, r.acc) ELSE r

\* ostree_traverse_commit (repo, checksum, 0, reachable_objects, ...)
TraverseCommit(st, mode, c, acc) ==
  IF st[c] = "absent" THEN [ok |-> FALSE, acc |-> acc]
  ELSE TraverseDirtree(st, mode, CommitRoot(c).tree,
                       acc \cup {ObjectName(c, COMMIT),
                                 ObjectName(CommitRoot(c).meta, DIR_META)})

(* ------------------------------ pack files ----------------------------- *)
\* A guint64 is written as its 8 bytes, most significant first.
U64(n) == <<0, 0, 0, 0, 0, 0, 0, n>>
ByteSwap(w) == [j \in 1..Len(w) |-> w[Len(w) + 1 - j]]

\* the build target's byte order
HostIsLittleEndian == TRUE

\* g_variant_iter_loop with format "t": the 8 stored bytes read in host order
HostRead(stored) == IF HostIsLittleEndian THEN ByteSwap(stored) ELSE stored

\* GUINT64_FROM_BE: swaps on a little-endian host; mutant: no conversion
FromBE_NoSwap(v) == v
GUINT64_FROM_BE(v) == IF HostIsLittleEndian THEN ByteSwap(v) ELSE v

\* a > b on guint64 values
RECURSIVE U64GtFrom(_, _, _)
U64GtFrom(a, b, j) ==
  IF j > Len(a) THEN FALSE
  ELSE IF a[j] # b[j] THEN a[j] > b[j]
  ELSE U64GtFrom(a, b, j + 1)
U64Gt(a, b) == U64GtFrom(a, b, 1)

\* the test of line 117; mutant: rejects an offset equal to the file size
OffsetAtOrBeyond(offset, pack_size) == offset = pack_size \/ U64Gt(offset, pack_size)
OffsetOutOfRange(offset, pack_size) == U64Gt(offset, pack_size)

\* condition of one pack (index file plus data file)
\*   nomap      the index cannot be mapped          badindex  index structure invalid
\*   noopen     the data file cannot be opened      noinfo    its size cannot be queried
\*   noread     reading the data file fails         badsum    data digest differs from name
\*   badoffset  an index offset lies beyond the data file
\*   leoffset   an index offset was stored little-endian
PackFaultKinds ==
  {"nomap", "badindex", "noopen", "noinfo", "noread", "badsum", "badoffset", "leoffset"}
PackKinds == {"ok"} \cup PackFaultKinds

PackNames == <<"p1", "p2", "p3", "p4">>


\* size of every pack data file (standard::size)
PackDataSize == U64(2)

\* the offsets stored in a pack's index, as the bytes on disk
StoredOffsets(kind) ==
  IF kind = "badoffset" THEN <<U64(1), U64(3)>>
  ELSE IF kind = "leoffset" THEN <<ByteSwap(U64(1))>>
  ELSE <<U64(1), U64(2)>>

Pack(j, kind) ==
  [checksum |-> PackNames[j], kind |-> kind, size |-> PackDataSize,
   offsets |-> StoredOffsets(kind)]

\* digest of a pack's data file as ot_gio_checksum_stream computes it
PackDigest(p) == IF p.kind = "badsum" THEN "px" ELSE p.checksum

\* lines 113-125: some decoded offset is larger than the file size
BadOffset(p) ==
  \E j \in 1..Len(p.offsets) :
     OffsetOutOfRange(GUINT64_FROM_BE(HostRead(p.offsets[j])), p.size)

\* the step of one loop iteration (lines 69-127) at which pack p fails
PackFailStage(p) ==
  IF p.kind = "nomap" THEN "map"
  ELSE IF p.kind = "badindex" THEN "validate"
  ELSE IF p.kind = "noopen" THEN "open"
  ELSE IF p.kind = "noinfo" THEN "info"
  ELSE IF p.kind = "noread" THEN "read"
  ELSE IF PackDigest(p) # p.checksum THEN "sum"
  ELSE IF BadOffset(p) THEN "offset"
  ELSE "none"

(* ------------------------------- handles ------------------------------- *)
\* local pointer variables of the three functions
MainHandles == {"context", "repo", "objects", "commits"}
ReachHandles ==
  {"reachable_objects", "input", "file_info", "xattrs", "metadata",
   "metadata_wrapped", "computed_checksum"}
PackHandles ==
  {"pack_indexes", "index_variant", "pack_index_path", "pack_data_path",
   "pack_info", "pack_input", "pack_content_checksum", "index_content_iter"}
HandleVars == MainHandles \cup ReachHandles \cup PackHandles

\* a pointer is "null", holds a live handle ("held"), or keeps the address
\* of a freed one ("freed").
\* resource state: h pointer states, leaked the variables whose handle was
\* lost while live, df set when a freed handle was freed again
Put(r, X, v) == [r EXCEPT !.h = [x \in HandleVars |-> IF x \in X THEN v ELSE r.h[x]]]

\* p = <new handle>
Acquire(r, x) ==
  [Put(r, {x}, "held") EXCEPT
     !.leaked = IF r.h[x] = "held" THEN r.leaked \cup {x} ELSE r.leaked]

\* g_clear_object (&p), ot_clear_gvariant (&p), ot_clear_checksum (&p), ...
Clear(r, X) == Put(r, X, "null")

\* if (p) free (p);   the pointer keeps its value
FreeIfSet(r, x) ==
  IF r.h[x] = "null" THEN r
  ELSE [Put(r, {x}, "freed") EXCEPT !.df = r.df \/ r.h[x] = "freed"]

\* the function returns: a local still holding a live handle loses it
Leave(r, F) ==
  [Put(r, F, "null") EXCEPT !.leaked = r.leaked \cup {x \in F : r.h[x] = "held"}]

(* ---------------------- repository layer, per object ------------------- *)
\* ostree_repo_load_variant / ostree_repo_load_file fail for a missing object
LoadFails(st, c) == st[c] = "absent"

\* ostree_validate_structureof_{commit,dirtree,dirmeta,file_mode}
StructureInvalid(st, c) == st[c] \in {"invalid", "invalid_corrupt"}

\* the content stream of the object fails while being read
ReadFails(st, c) == st[c] = "unreadable"

\* the checksum domain an object's name was computed in
NamingDomain(objtype) ==
  IF objtype \in {RAW_FILE, ARCHIVED_FILE_META, ARCHIVED_FILE_CONTENT}
  THEN RAW_FILE ELSE objtype

\* a digest that is not the name of any object
Altered(c) ==
  CASE c = "c1" -> "c1x" [] c = "c2" -> "c2x" [] c = "t1" -> "t1x"
    [] c = "t2" -> "t2x" [] c = "m1" -> "m1x" [] OTHER -> "f1x"

\* ostree_checksum_file_from_input over the loaded bytes of object
\* (c, objtype), digested in the domain checksum_objtype
ComputedChecksum(st, c, objtype, checksum_objtype) ==
  IF st[c] \in {"corrupt", "invalid_corrupt"}
     \/ checksum_objtype # NamingDomain(objtype)
  THEN Altered(c) ELSE c

(* ------------------------------ variables ------------------------------ *)
VARIABLES
  pc,                 \* position of the run
  quiet, delete,      \* the option flags (lines 31-32)
  repo_mode,          \* bare or archive repository
  store,              \* condition of every object of the repository
  pack_indexes,       \* fsck_pack_files: the pack_indexes ostree_repo_list_pack_indexes
                      \* found, each with the condition its files are read in
  objects,            \* ostree_builtin_fsck: objects table
  commits,            \* ostree_builtin_fsck: commits table
  reachable_objects,  \* fsck_reachable_objects_from_commits: reachable set
  hash_iter,          \* keys the current hash table iteration has not yielded
  i,                  \* fsck_pack_files: loop index
  n_pack_files,       \* data->n_pack_files
  ret,                \* ostree_builtin_fsck: ret
  error,              \* the GError of the run
  output,             \* lines printed with g_print
  loaded,             \* object names loaded by the verification loop
  compared,           \* object names whose checksum was recomputed and compared
  res,                \* pointer variables and lost handles
  cancelRaised        \* an external cancellation request was made

vars ==
  <<pc, quiet, delete, repo_mode, store, pack_indexes, objects, commits,
    reachable_objects, hash_iter, i, n_pack_files, ret, error, output,
    loaded, compared, res, cancelRaised>>

Err(kind, checksum, objtype, actual) ==
  [kind |-> kind, checksum |-> checksum, objtype |-> objtype, actual |-> actual]
NoError == Err("none", "", "", "")

ENUMERATING == [line |-> "Enumerating objects...", n |-> 0]
VERIFYING_CONTENT(n) ==
  [line |-> "Verifying content integrity of %u commit objects...", n |-> n]
VERIFYING_PACKS == [line |-> "Verifying structure of pack files...", n |-> 0]

(* -------------------------------- Init --------------------------------- *)
\* stores: the objects some set of root commits depends on, of which at
\* most MaxFaults are faulty
StoreOf(present, F, k) ==
  [c \in Checksums |->
     IF c \notin present THEN "absent" ELSE IF c \in F THEN k[c] ELSE "ok"]

\* the pack lists a repository may hold: up to MaxPacks packs, each in any
\* condition
PackLists ==
  UNION {{[j \in 1..n |-> Pack(j, kinds[j])] : kinds \in [1..n -> PackKinds]}
         : n \in 0..MaxPacks}

Init ==
  /\ pc = "parse"
  /\ quiet = FALSE
  /\ delete = FALSE
  /\ repo_mode \in RepoModes
  /\ \E roots \in SUBSET CommitSums :
       \E F \in SUBSET Closure(roots) :
          /\ Cardinality(F) <= MaxFaults
          /\ \E k \in [F -> ObjFaultKinds] :
               /\ \A c \in F : FaultAllowed(c, k[c])
               /\ store = StoreOf(Closure(roots), F, k)
  /\ pack_indexes = <<>>
  /\ objects = {}
  /\ commits = {}
  /\ reachable_objects = {}
  /\ hash_iter = {}
  /\ i = 0
  /\ n_pack_files = 0
  /\ ret = FALSE
  /\ error = NoError
  /\ output = <<>>
  /\ loaded = {}
  /\ compared = {}
  /\ res = [h |-> [x \in HandleVars |-> IF x = "context" THEN "held" ELSE "null"],
            leaked |-> {}, df |-> FALSE]
  /\ cancelRaised = FALSE

(* ------------------------- cleanup ("out:" labels) --------------------- *)
\* ostree_builtin_fsck, lines 343-349
MainOut(r) ==
  Leave(Clear(FreeIfSet(r, "context"), {"repo", "objects", "commits"}), MainHandles)

\* fsck_reachable_objects_from_commits, lines 269-277
ReachOut(r) == Leave(Clear(r, ReachHandles), ReachHandles)

\* fsck_pack_files, lines 131-141: index_variant and pack_index_path are
\* not released here
PackOut(r) ==
  Leave(Clear(FreeIfSet(FreeIfSet(r, "index_content_iter"), "pack_content_checksum"),
              {"pack_indexes", "pack_info", "pack_data_path", "pack_input"}),
        PackHandles)

\* g_print of a status line: the quiet flag is not consulted
Emit(out, q, line) == Append(out, line)

\* the run ends: ostree_builtin_fsck returns ok with error err
Finish(ok, err, r) ==
  /\ pc' = "done"
  /\ ret' = ok
  /\ error' = err
  /\ res' = MainOut(r)

(* --------------------------- ostree_builtin_fsck ----------------------- *)
\* lines 293-297: g_option_context_parse sets the flags or fails
ParseOptions ==
  /\ pc = "parse"
  /\ \E ok \in BOOLEAN, q \in BOOLEAN, d \in BOOLEAN :
       IF ok
       THEN /\ quiet' = q
            /\ delete' = d
            /\ pc' = "repo_check"
            /\ UNCHANGED <<ret, error, res>>
       ELSE /\ Finish(FALSE, Err("option", "", "", ""), res)
            /\ UNCHANGED <<quiet, delete>>
  /\ UNCHANGED <<repo_mode, store, pack_indexes, objects, commits, reachable_objects,
                 hash_iter, i, n_pack_files, output, loaded, compared, cancelRaised>>

\* lines 299-304: ostree_repo_new, ostree_repo_check
RepoCheck ==
  /\ pc = "repo_check"
  /\ \E ok \in BOOLEAN :
       IF ok
       THEN /\ pc' = "enumerate"
            /\ res' = Acquire(res, "repo")
            /\ UNCHANGED <<ret, error>>
       ELSE Finish(FALSE, Err("repo", "", "", ""), Acquire(res, "repo"))
  /\ UNCHANGED <<quiet, delete, repo_mode, store, pack_indexes, objects, commits,
                 reachable_objects, hash_iter, i, n_pack_files, output, loaded,
                 compared, cancelRaised>>

\* lines 306-310: status line, then ostree_repo_list_objects
Enumerate ==
  /\ pc = "enumerate"
  /\ output' = Emit(output, quiet, ENUMERATING)
  /\ \E ok \in BOOLEAN :
       IF ok
       THEN /\ objects' = ListObjects(store, repo_mode)
            /\ pc' = "partition"
            /\ res' = Acquire(res, "objects")
            /\ UNCHANGED <<ret, error>>
       ELSE /\ Finish(FALSE, Err("list", "", "", ""), res)
            /\ UNCHANGED objects
  /\ UNCHANGED <<quiet, delete, repo_mode, store, pack_indexes, commits,
                 reachable_objects, hash_iter, i, n_pack_files, loaded, compared,
                 cancelRaised>>

\* line 325: the test that selects the keys copied into commits;
\* mutant: also selects directory trees
SelectsTrees(objtype) == objtype \in {COMMIT, DIR_TREE}
IsCommitKey(objtype) == objtype = COMMIT

\* lines 312-332 and 161-163: the commits table is filled, objects is
\* released, the second status line is printed, and
\* fsck_reachable_objects_from_commits starts its loop over commits
Partition ==
  /\ pc = "partition"
  /\ LET cs == {key \in objects : IsCommitKey(key.objtype)} IN
       /\ commits' = cs
       /\ output' = Emit(output, quiet, VERIFYING_CONTENT(Cardinality(cs)))
       /\ hash_iter' = cs
  /\ objects' = {}
  /\ reachable_objects' = {}
  /\ res' = Acquire(Clear(Acquire(res, "commits"), {"objects"}), "reachable_objects")
  /\ pc' = "traverse"
  /\ UNCHANGED <<quiet, delete, repo_mode, store, pack_indexes, i, n_pack_files, ret,
                 error, loaded, compared, cancelRaised>>

(* ----------------- fsck_reachable_objects_from_commits ------------------ *)
\* g_assert / g_assert_not_reached fails: the process aborts
Abort ==
  /\ pc' = "assert_failed"
  /\ UNCHANGED <<ret, error, res>>

\* the helper fails with err: its cleanup runs, then the driver's (line 335)
ReachFail(err, r) == Finish(FALSE, err, ReachOut(r))

\* line 174: the accumulator handed to ostree_traverse_commit is the one
\* reachable_objects table shared by all commits; mutant: a fresh one per commit
AccumulatorArg_Fresh(acc) == {}
AccumulatorArg(acc) == acc

\* lines 164-177: one iteration of the loop over the commits table
TraverseNext(key) ==
  /\ pc = "traverse"
  /\ key \in hash_iter
  /\ IF key.objtype # COMMIT
     THEN /\ Abort
          /\ UNCHANGED <<reachable_objects, hash_iter>>
     ELSE LET t == TraverseCommit(store, repo_mode, key.checksum,
                                  AccumulatorArg(reachable_objects)) IN
          IF t.ok
          THEN /\ reachable_objects' = t.acc
               /\ hash_iter' = hash_iter \ {key}
               /\ UNCHANGED <<pc, ret, error, res>>
          ELSE /\ ReachFail(Err("traverse", "", "", ""), res)
               /\ UNCHANGED <<reachable_objects, hash_iter>>
  /\ UNCHANGED <<quiet, delete, repo_mode, store, pack_indexes, objects, commits, i,
                 n_pack_files, output, loaded, compared, cancelRaised>>

\* line 164: g_hash_table_iter_next returns FALSE once every key was yielded;
\* mutant: the loop over commits may be left at any time
IterExhausted_Early(iter) == TRUE
IterExhausted(iter) == iter = {}

\* line 179: every commit was traversed; the loop over reachable_objects starts
BeginVerify ==
  /\ pc = "traverse"
  /\ IterExhausted(hash_iter)
  /\ pc' = "verify"
  /\ hash_iter' = reachable_objects
  /\ UNCHANGED <<quiet, delete, repo_mode, store, pack_indexes, objects, commits,
                 reachable_objects, i, n_pack_files, ret, error, output, loaded,
                 compared, res, cancelRaised>>

\* lines 193 and 241: the domain the checksum is computed in;
\* mutant: no override for archived file metadata
ChecksumObjtype_NoOverride(objtype) == objtype
ChecksumObjtype(objtype) ==
  IF objtype \in {RAW_FILE, ARCHIVED_FILE_META} THEN RAW_FILE ELSE objtype

\* line 262: the object type named in the corruption message;
\* mutant: names the checksum domain
ReportedObjtype_Domain(objtype, checksum_objtype) == checksum_objtype
ReportedObjtype(objtype, checksum_objtype) == objtype

\* lines 258-265: what becomes of the store when object key is found
\* corrupted; the delete flag is not consulted.  mutant: the object is removed
StoreAfterCorruption_Remove(st, del, key) == [st EXCEPT ![key.checksum] = "absent"]
StoreAfterCorruption(st, del, key) == st

\* line 258: the comparison of the name with the computed checksum;
\* mutant: never reports a mismatch
Mismatch_Never(checksum, computed) == FALSE
Mismatch(checksum, computed) == checksum # computed

\* lines 252-265: recompute the checksum of object key and compare
\* (r: resources after load and validation)
CompareChecksum(key, r) ==
  LET cot == ChecksumObjtype(key.objtype)
      computed == ComputedChecksum(store, key.checksum, key.objtype, cot)
      r1 == Acquire(Clear(r, {"computed_checksum"}), "computed_checksum")
  IN IF ReadFails(store, key.checksum)
     THEN /\ ReachFail(Err("read", "", "", ""), Clear(r, {"computed_checksum"}))
          /\ UNCHANGED <<hash_iter, compared, store>>
     ELSE /\ compared' = compared \cup {key}
          /\ IF Mismatch(key.checksum, computed)
             THEN /\ ReachFail(Err("corrupted object", key.checksum,
                                   ReportedObjtype(key.objtype, cot), computed), r1)
                  /\ store' = StoreAfterCorruption(store, delete, key)
                  /\ UNCHANGED hash_iter
             ELSE /\ hash_iter' = hash_iter \ {key}
                  /\ res' = r1
                  /\ UNCHANGED <<pc, ret, error, store>>

\* lines 204-218 and 244: the loaded object is validated per its type and
\* a failure leaves the loop before line 252; mutant: the result is ignored
ValidationStops_Ignored(st, key) == FALSE
ValidationStops(st, key) == StructureInvalid(st, key.checksum)

\* lines 189-191: start of one iteration of the loop over reachable_objects
IterStart(r) == Clear(r, {"input", "file_info", "xattrs"})

\* lines 195-228: a commit, dirtree or dirmeta entry
VerifyMetadata(key) ==
  /\ pc = "verify"
  /\ key \in hash_iter
  /\ key.objtype \in {COMMIT, DIR_TREE, DIR_META}
  /\ LET r0 == Clear(IterStart(res), {"metadata"})
         r1 == Acquire(r0, "metadata")
         r2 == Acquire(Acquire(Clear(r1, {"metadata_wrapped"}), "metadata_wrapped"),
                       "input")
     IN IF LoadFails(store, key.checksum)
        THEN /\ ReachFail(Err("load", "", "", ""), r0)
             /\ UNCHANGED <<hash_iter, loaded, compared, store>>
        ELSE /\ loaded' = loaded \cup {key}
             /\ IF ValidationStops(store, key)
                THEN /\ ReachFail(Err("structure", "", "", ""), r1)
                     /\ UNCHANGED <<hash_iter, compared, store>>
                ELSE CompareChecksum(key, r2)
  /\ UNCHANGED <<quiet, delete, repo_mode, pack_indexes, objects, commits,
                 reachable_objects, i, n_pack_files, output, cancelRaised>>

\* line 229: the entries the loop passes over without examining them;
\* mutant: archived file metadata is passed over as well
SkipsVerification_Meta(objtype) ==
  objtype \in {ARCHIVED_FILE_CONTENT, ARCHIVED_FILE_META}
SkipsVerification(objtype) == objtype = ARCHIVED_FILE_CONTENT

\* lines 229-233: archived file content is handled via ARCHIVED_FILE_META
SkipArchivedContent(key) ==
  /\ pc = "verify"
  /\ key \in hash_iter
  /\ SkipsVerification(key.objtype)
  /\ hash_iter' = hash_iter \ {key}
  /\ res' = IterStart(res)
  /\ UNCHANGED <<pc, quiet, delete, repo_mode, store, pack_indexes, objects, commits,
                 reachable_objects, i, n_pack_files, ret, error, output, loaded,
                 compared, cancelRaised>>

\* lines 234-250: a raw file or archived file metadata entry; an entry of
\* any other type fails g_assert_not_reached
VerifyFile(key) ==
  /\ pc = "verify"
  /\ key \in hash_iter
  /\ key.objtype \notin {COMMIT, DIR_TREE, DIR_META}
  /\ ~SkipsVerification(key.objtype)
  /\ LET r0 == IterStart(res)
         r1 == Acquire(Acquire(Acquire(r0, "input"), "file_info"), "xattrs")
     IN IF key.objtype \notin {RAW_FILE, ARCHIVED_FILE_META}
        THEN /\ Abort
             /\ UNCHANGED <<hash_iter, loaded, compared, store>>
        ELSE IF LoadFails(store, key.checksum)
        THEN /\ ReachFail(Err("load", "", "", ""), r0)
             /\ UNCHANGED <<hash_iter, loaded, compared, store>>
        ELSE /\ loaded' = loaded \cup {key}
             /\ IF ValidationStops(store, key)
                THEN /\ ReachFail(Err("structure", "", "", ""), r1)
                     /\ UNCHANGED <<hash_iter, compared, store>>
                ELSE CompareChecksum(key, r1)
  /\ UNCHANGED <<quiet, delete, repo_mode, pack_indexes, objects, commits,
                 reachable_objects, i, n_pack_files, output, cancelRaised>>

\* line 335-337: the phase that follows fsck_reachable_objects_from_commits;
\* mutant: the pack_indexes are checked whatever the helper returned
AfterReachable_Always(ok) == "pack_list"
\* mutant: the run stops after the helper whatever it returned
AfterReachable_Never(ok) == "done"
AfterReachable(ok) == IF ok THEN "pack_list" ELSE "done"

\* lines 268-278 and 334-337: the loop over reachable_objects is exhausted,
\* the helper cleans up and returns TRUE
ReachableDone ==
  /\ pc = "verify"
  /\ hash_iter = {}
  /\ pc' = AfterReachable(TRUE)
  /\ res' = ReachOut(res)
  /\ UNCHANGED <<quiet, delete, repo_mode, store, pack_indexes, objects, commits,
                 reachable_objects, hash_iter, i, n_pack_files, ret, error, output,
                 loaded, compared, cancelRaised>>

(* ------------------------------ fsck_pack_files ------------------------ *)
\* the helper leaves through "out:" with err in *error; freeing
\* pack_content_checksum a second time is undefined: the process is killed
\* before anything is reported, or the call returns
PackLeave(ok, err, r) ==
  LET r1 == PackOut(r) IN
  IF r1.df
  THEN \E killed \in BOOLEAN :
         IF killed
         THEN /\ pc' = "crashed"
              /\ res' = r1
              /\ error' = err
              /\ UNCHANGED ret
         ELSE Finish(ok, err, r1)
  ELSE Finish(ok, err, r1)

\* lines 337-339 and 64-67: third status line, ostree_repo_list_pack_indexes.
\* The pack directory is read here for the first time: the listing and the
\* condition of each listed pack are fixed at this step.
ListPackIndexes ==
  /\ pc = "pack_list"
  /\ output' = Emit(output, quiet, VERIFYING_PACKS)
  /\ \E ok \in BOOLEAN :
       IF ok
       THEN /\ pack_indexes' \in PackLists
            /\ pc' = "packs"
            /\ i' = 0
            /\ res' = Acquire(res, "pack_indexes")
            /\ UNCHANGED <<ret, error>>
       ELSE /\ PackLeave(FALSE, Err("list packs", "", "", ""), res)
            /\ UNCHANGED <<i, pack_indexes>>
  /\ UNCHANGED <<quiet, delete, repo_mode, store, objects, commits,
                 reachable_objects, hash_iter, n_pack_files, loaded, compared,
                 cancelRaised>>

StageRank(stage) ==
  CASE stage = "map" -> 1 [] stage = "validate" -> 2 [] stage = "open" -> 3
    [] stage = "info" -> 4 [] stage = "read" -> 5 [] stage = "sum" -> 6
    [] stage = "offset" -> 7 [] OTHER -> 8

\* pointer variables after the loop body ran up to the step `stage` failed
PackBody(r, stage) ==
  LET k == StageRank(stage)
      \* 71-74
      r1 == Clear(Acquire(Clear(r, {"pack_index_path"}), "pack_index_path"),
                  {"index_variant"})
      \* 75-84
      r2 == Acquire(Clear(Acquire(r1, "index_variant"), {"pack_data_path"}),
                    "pack_data_path")
      \* 86
      r3 == Clear(IF k > 2 THEN r2 ELSE IF k = 2 THEN Acquire(r1, "index_variant") ELSE r1,
                  IF k > 2 THEN {"pack_input"} ELSE {})
      \* 87-91
      r4 == IF k > 3 THEN Clear(Acquire(r3, "pack_input"), {"pack_info"}) ELSE r3
      \* 92-99
      r5 == IF k > 4 THEN FreeIfSet(Acquire(r4, "pack_info"), "pack_content_checksum")
            ELSE r4
      \* 100
      r6 == IF k > 5 THEN Acquire(r5, "pack_content_checksum") ELSE r5
      \* 111
      r7 == IF k > 6 THEN Acquire(r6, "index_content_iter") ELSE r6
  IN r7

\* whether the error of a failing step can name the pack: the two messages
\* the driver formats itself do (lines 106, 120); the validator is handed
\* the index variant alone (line 80) and cannot; what the I/O callees put in
\* their message is theirs to choose
NamesPack(stage) ==
  IF stage \in {"sum", "offset"} THEN {TRUE}
  ELSE IF stage = "validate" THEN {FALSE}
  ELSE BOOLEAN

\* the error a failing step leaves in *error; mutant: the driver's own
\* messages leave the pack out
PackError_Unnamed(p, stage, named) ==
  Err(IF stage = "sum" THEN "corrupted pack, expected checksum"
      ELSE IF stage = "offset" THEN "corrupted pack, offset larger than file size"
      ELSE stage, "", "", "")
PackError(p, stage, named) ==
  IF stage = "sum"
  THEN Err("corrupted pack, expected checksum", p.checksum, "", PackDigest(p))
  ELSE IF stage = "offset"
  THEN Err("corrupted pack, offset larger than file size", p.checksum, "", "")
  ELSE Err(stage, IF named THEN p.checksum ELSE "", "", "")

\* lines 67-128: one iteration of the loop over pack_indexes
FsckPack ==
  /\ pc = "packs"
  /\ i < Len(pack_indexes)
  /\ LET p == pack_indexes[i + 1]
         stage == PackFailStage(p)
         r == PackBody(res, stage)
     IN IF stage = "none"
        THEN /\ n_pack_files' = n_pack_files + 1
             /\ i' = i + 1
             /\ res' = r
             /\ UNCHANGED <<pc, ret, error>>
        ELSE /\ \E named \in NamesPack(stage) :
                  PackLeave(FALSE, PackError(p, stage, named), r)
             /\ UNCHANGED <<i, n_pack_files>>
  /\ UNCHANGED <<quiet, delete, repo_mode, store, pack_indexes, objects, commits,
                 reachable_objects, hash_iter, output, loaded, compared,
                 cancelRaised>>

\* lines 130-142 and 342-350: every pack passed; both functions return TRUE
PacksDone ==
  /\ pc = "packs"
  /\ i = Len(pack_indexes)
  /\ PackLeave(TRUE, NoError, res)
  /\ UNCHANGED <<quiet, delete, repo_mode, store, pack_indexes, objects, commits,
                 reachable_objects, hash_iter, i, n_pack_files, output, loaded,
                 compared, cancelRaised>>

(* ------------------------------ environment ---------------------------- *)
\* somebody asks the running fsck to stop
RaiseCancel ==
  /\ pc \notin {"done", "crashed", "assert_failed"}
  /\ ~cancelRaised
  /\ cancelRaised' = TRUE
  /\ UNCHANGED <<pc, quiet, delete, repo_mode, store, pack_indexes, objects, commits,
                 reachable_objects, hash_iter, i, n_pack_files, ret, error, output,
                 loaded, compared, res>>

(* ---------------------------- specifications --------------------------- *)
Next ==
  \/ ParseOptions
  \/ RepoCheck
  \/ Enumerate
  \/ Partition
  \/ \E key \in hash_iter : TraverseNext(key)
  \/ BeginVerify
  \/ \E key \in hash_iter : VerifyMetadata(key)
  \/ \E key \in hash_iter : SkipArchivedContent(key)
  \/ \E key \in hash_iter : VerifyFile(key)
  \/ ReachableDone
  \/ ListPackIndexes
  \/ FsckPack
  \/ PacksDone

Spec == Init /\ [][Next]_vars

\* the same run with an external party that may request cancellation
NextCancel == Next \/ RaiseCancel

SpecCancel == Init /\ [][NextCancel]_vars

(* ======================= properties of the run ========================= *)
Succeeded == pc = "done" /\ ret = TRUE

\* the run got as far as phase 3: options parsed, repository opened,
\* objects enumerated
PastEnumeration == Len(output) >= 2

\* the commits a listing of the store yields
StoreCommits == {k \in ListObjects(store, repo_mode) : k.objtype = COMMIT}

\* ostree_traverse_commit applied to every commit of cs in turn
RECURSIVE TraverseAll(_, _)
TraverseAll(cs, acc) ==
  IF cs = {} THEN [ok |-> TRUE, acc |-> acc]
  ELSE LET k == CHOOSE x \in cs : TRUE
           t == TraverseCommit(store, repo_mode, k.checksum, acc)
       IN IF t.ok THEN TraverseAll(cs \ {k}, t.acc) ELSE t

\* the objects transitively reachable from the commits of the store
Reach == TraverseAll(StoreCommits, {})

\* the checksum recomputed for a stored object, in the domain of its name
Recomputed(name) ==
  ComputedChecksum(store, name.checksum, name.objtype, NamingDomain(name.objtype))

\* every reachable object is there and its recomputed checksum is its name
AllReachableMatch ==
  /\ Reach.ok
  /\ \A name \in Reach.acc :
        ~LoadFails(store, name.checksum) /\ Recomputed(name) = name.checksum

\* every reachable entry that is examined can be loaded, validates, can be
\* read and matches its name
ReachableSound ==
  /\ Reach.ok
  /\ \A name \in Reach.acc :
        name.objtype # ARCHIVED_FILE_CONTENT =>
          /\ ~LoadFails(store, name.checksum)
          /\ ~StructureInvalid(store, name.checksum)
          /\ ~ReadFails(store, name.checksum)
          /\ Recomputed(name) = name.checksum

AllPacksPass ==
  \A j \in 1..Len(pack_indexes) : PackFailStage(pack_indexes[j]) = "none"

\* errors that come from the environment rather than from what is stored
IOErrorKinds == {"option", "repo", "list", "list packs", "map", "open", "info", "read"}

\* C1 (as stated): a run over enumerated commits ends in success if and
\* only if every object reachable from them has a recomputed checksum equal
\* to the checksum in its name (runs stopped by an I/O failure set aside).
C1_Original ==
  (pc = "done" /\ error.kind \notin IOErrorKinds) =>
     (ret = TRUE <=> AllReachableMatch)

\* C1 (amended): a run that got past enumeration and returns ends in
\* success if and only if every commit can be traversed, every reachable
\* object other than archived file content loads, validates, can be read and
\* has a recomputed checksum equal to its name, the packs can be listed and
\* every pack passes the pack check.
C1_SuccessIffSound ==
  (pc = "done" /\ PastEnumeration) =>
     (ret = TRUE <=>
        (ReachableSound /\ error.kind # "list packs" /\ AllPacksPass))

\* a run that succeeded after comparing objects and checking a pack
C1_Witness == Succeeded /\ compared # {} /\ Len(pack_indexes) > 0

\* C2 (as stated): after a successful run every enumerated object name was
\* loaded and had its checksum recomputed and compared.
C2_Original ==
  Succeeded => \A name \in ListObjects(store, repo_mode) :
                  name \in loaded /\ name \in compared

\* C2 (amended): after a successful run every object name reachable from
\* the enumerated commits, other than archived file content, was loaded and
\* had its checksum recomputed and compared.
C2_ReachableChecked ==
  Succeeded =>
    /\ reachable_objects = Reach.acc
    /\ \A name \in reachable_objects :
          name.objtype # ARCHIVED_FILE_CONTENT =>
             name \in loaded /\ name \in compared

\* a successful run over a store that lists an object no commit reaches
C2_Witness ==
  /\ Succeeded
  /\ compared # {}
  /\ ListObjects(store, repo_mode) \ reachable_objects # {}

(* ------------------------------ pack check ----------------------------- *)
\* the packs the loop of fsck_pack_files has dealt with: those it accepted
\* and, after a failure inside the loop, the one it rejected
PackLoopErrors ==
  {"map", "validate", "open", "info", "read",
   "corrupted pack, expected checksum",
   "corrupted pack, offset larger than file size"}
Accepted(j) == j <= i
Rejected(j) == j = i + 1 /\ pc \in {"done", "crashed"} /\ error.kind \in PackLoopErrors
Checked(j) == j \in 1..Len(pack_indexes) /\ (Accepted(j) \/ Rejected(j))

\* (a) the data file can be read and its digest is the name of the pack
DataChecksumMatches(p) ==
  p.kind \notin {"noopen", "noinfo", "noread"} /\ PackDigest(p) = p.checksum

\* (b) the index can be read and every offset it declares, taken as a
\* big-endian number, is at most the size of the data file
OffsetsWithinData(p) ==
  /\ p.kind # "nomap"
  /\ \A j \in 1..Len(p.offsets) : ~U64Gt(p.offsets[j], p.size)

\* the index passes ostree_validate_structureof_pack_index
IndexStructureValid(p) == p.kind # "badindex"

\* C3 (as stated): the pack check accepts a pack if and only if (a) the
\* checksum recomputed over its data file equals its name and (b) every
\* offset declared in its index, decoded from big-endian, is at most the
\* size of the data file.
C3_Original ==
  \A j \in 1..Len(pack_indexes) :
     Checked(j) =>
       (Accepted(j) <=> (DataChecksumMatches(pack_indexes[j])
                         /\ OffsetsWithinData(pack_indexes[j])))

\* C3 (amended): the pack check accepts a pack if and only if its index
\* passes structural validation and (a) and (b) hold.
C3_AcceptIffValid ==
  \A j \in 1..Len(pack_indexes) :
     Checked(j) =>
       (Accepted(j) <=> (/\ IndexStructureValid(pack_indexes[j])
                         /\ DataChecksumMatches(pack_indexes[j])
                         /\ OffsetsWithinData(pack_indexes[j])))

\* one pack was accepted with an offset equal to the file size, the next
\* rejected for an offset that is only in range when read little-endian
C3_Witness ==
  /\ pc = "done"
  /\ i = 1
  /\ Len(pack_indexes) = 2
  /\ pack_indexes[2].kind = "leoffset"
  /\ error.kind = "corrupted pack, offset larger than file size"
  /\ error.checksum = pack_indexes[2].checksum

(* --------------------------- failure handling -------------------------- *)
\* every reachable entry the loop examines has been compared
AllCompared ==
  \A name \in reachable_objects :
     name.objtype # ARCHIVED_FILE_CONTENT => name \in compared

\* C4 (as stated): the first failure is terminal: once a step has failed
\* the run has ended in failure carrying that error, and the pack phase is
\* entered only after reachability and content verification succeeded.
C4_Original ==
  /\ error # NoError => (pc = "done" /\ ret = FALSE)
  /\ pc \in {"pack_list", "packs"} => (error = NoError /\ AllCompared)

\* the store is consistent except that the content of the reachable file f
\* no longer matches its name
OnlyFaultCorruptFile(f) ==
  /\ store[f] = "corrupt"
  /\ \A c \in Checksums \ {f} : store[c] \in {"ok", "absent"}
  /\ Reach.ok
  /\ \A name \in Reach.acc : ~LoadFails(store, name.checksum)
  /\ \E name \in Reach.acc : name.checksum = f

\* the type under which a file is named in this repository
DeclaredFileType == IF repo_mode = ARCHIVE THEN ARCHIVED_FILE_META ELSE RAW_FILE

\* C5: if the only fault of the store is one reachable file whose content
\* differs from its name, a run that reaches phase 3 fails there, before
\* any pack is examined, and the error names the file's claimed checksum,
\* its declared object type and the checksum computed.
C5_CorruptFileReported ==
  \A f \in FileSums :
     (pc = "done" /\ PastEnumeration /\ OnlyFaultCorruptFile(f)) =>
        /\ ret = FALSE
        /\ error = Err("corrupted object", f, DeclaredFileType, Altered(f))
        /\ Len(output) = 2
        /\ pack_indexes = <<>>
        /\ n_pack_files = 0

\* such a run over an archive repository has ended
C5_Witness ==
  /\ pc = "done"
  /\ repo_mode = ARCHIVE
  /\ OnlyFaultCorruptFile("f1")
  /\ error.kind = "corrupted object"
  /\ error.objtype = ARCHIVED_FILE_META

\* C6 (as stated): with --delete, a reachable file object found corrupted
\* is removed from the store, so that a later enumeration no longer lists it.
C6_Original ==
  (/\ pc = "done"
   /\ delete
   /\ error.kind = "corrupted object"
   /\ error.objtype \in {RAW_FILE, ARCHIVED_FILE_META})
  => ObjectName(error.checksum, error.objtype) \notin ListObjects(store, repo_mode)

\* C7: without --delete no step of a run changes the store or the packs it
\* listed; with --delete the only change a step may make is the removal of
\* the one object it reports as corrupted.
C7_StoreUnchanged ==
  [][/\ (pc = "packs" => pack_indexes' = pack_indexes)
     /\ IF delete
        THEN \/ store' = store
             \/ /\ error'.kind = "corrupted object"
                /\ store' = [store EXCEPT ![error'.checksum] = "absent"]
        ELSE store' = store]_vars

\* a run without --delete that ended on finding a corrupted object
C7_Witness ==
  /\ pc = "done"
  /\ ~delete
  /\ error.kind = "corrupted object"
  /\ error.checksum \in DOMAIN store
  /\ store[error.checksum] # "absent"

(* ------------------------------ cancellation --------------------------- *)
\* the next step of the run is a visit of a commit, an object or a pack
VisitPending ==
  \/ pc \in {"traverse", "verify"} /\ hash_iter # {}
  \/ pc = "packs" /\ i < Len(pack_indexes)

\* C8 (as stated): once cancellation has been requested the run does not
\* start another visit: it ends in failure instead.
C8_Original ==
  [][(cancelRaised /\ VisitPending) =>
       /\ pc' = "done"
       /\ ret' = FALSE
       /\ reachable_objects' = reachable_objects
       /\ loaded' = loaded
       /\ compared' = compared
       /\ n_pack_files' = n_pack_files]_vars

(* -------------------------------- handles ------------------------------ *)
\* C9 (as stated): no handle is lost or overwritten while live, none is
\* released twice, and every function has released its handles when it
\* has returned.
C9_Original ==
  /\ res.leaked = {}
  /\ ~res.df
  /\ pc \in {"pack_list", "packs", "done"} => \A x \in ReachHandles : res.h[x] = "null"
  /\ pc = "done" => \A x \in HandleVars : res.h[x] = "null"

(* ------------------------------ status lines --------------------------- *)
\* the status lines in the order of their phases
StatusLines(n) == <<ENUMERATING, VERIFYING_CONTENT(n), VERIFYING_PACKS>>

\* C10 (as stated): with --quiet no status line is printed; without it each
\* status line is printed before its phase starts and only if every
\* earlier phase succeeded.
C10_Original ==
  /\ quiet => output = <<>>
  /\ ~quiet =>
       /\ \A j \in 1..Len(output) :
             output[j] = StatusLines(Cardinality(commits))[j]
       /\ pc \in {"partition"} => Len(output) = 1
       /\ pc \in {"traverse", "verify"} => Len(output) = 2
       /\ pc \in {"packs"} => Len(output) = 3
       /\ Len(output) = 3 => AllCompared

(* ------------------------------- traversal ----------------------------- *)
\* the commits the loop of lines 164-177 has dealt with so far
Traversed == IF pc = "traverse" THEN commits \ hash_iter ELSE commits

\* the names of everything the commits cs reference: each commit, its root
\* dirmeta and root dirtree, and all that the tree references transitively
ReferencedBy(cs) ==
  UNION {NamesOf(x, repo_mode) : x \in Closure({k.checksum : k \in cs})}

\* C11: the reachable set is cumulative and idempotent: while and after the
\* commits are traversed it equals the union of what each traversed commit
\* references, and traversing an already traversed commit again into it
\* succeeds and adds nothing.
C11_TraversalCumulative ==
  pc \in {"traverse", "verify"} =>
    /\ reachable_objects = ReferencedBy(Traversed)
    /\ \A k \in Traversed :
          TraverseCommit(store, repo_mode, k.checksum, reachable_objects)
            = [ok |-> TRUE, acc |-> reachable_objects]

\* two commits sharing a subtree and a file have both been traversed
C11_Witness ==
  /\ pc = "verify"
  /\ Cardinality(commits) = 2
  /\ Cardinality(reachable_objects) >= 6

(* --------------------------- pack phase errors ------------------------- *)
\* the pack phase has ended on a failure inside its loop, at pack j
PackPhaseFailedAt(j) == Rejected(j) /\ j \in 1..Len(pack_indexes)

OneCommitOneFile ==
  store = [c \in Checksums |-> IF c \in {"c1", "t1", "m1", "f1"} THEN "ok" ELSE "absent"]

\* the four objects of that store under the names the verification loop
\* examines them
FourObjects ==
  {ObjectName("c1", COMMIT), ObjectName("m1", DIR_META), ObjectName("t1", DIR_TREE),
   ObjectName("f1", DeclaredFileType)}

\* phase 3 has ended successfully
Phase3Passed == pc \in {"pack_list", "packs", "crashed"} \/ (pc = "done" /\ Len(output) = 3)

\* C13: over a consistent store of one commit whose root tree references
\* one file, phase 3 never fails, loads and checksums the commit, its
\* dirmeta, its dirtree and the file and nothing else, visits an entry only
\* if it was not loaded or compared before, and the run succeeds unless
\* the pack phase fails.
C13_OneCommitOneFile ==
  /\ [](OneCommitOneFile =>
          /\ loaded \subseteq FourObjects
          /\ compared \subseteq FourObjects
          /\ ~(pc = "done" /\ Len(output) = 2)
          /\ Phase3Passed => (loaded = FourObjects /\ compared = FourObjects)
          /\ (pc = "done" /\ Len(output) = 3 /\ error.kind # "list packs"
               /\ AllPacksPass) => ret = TRUE)
  /\ [][(OneCommitOneFile /\ pc = "verify" /\ hash_iter' # hash_iter) =>
          \E key \in hash_iter :
             /\ hash_iter' = hash_iter \ {key}
             /\ key \notin loaded
             /\ key \notin compared
             /\ loaded' \subseteq loaded \cup {key}
             /\ compared' \subseteq compared \cup {key}]_vars

\* such a run over an archive repository has succeeded
C13_Witness ==
  /\ Succeeded
  /\ OneCommitOneFile
  /\ repo_mode = ARCHIVE
  /\ Cardinality(compared) = 4

\* a store with no object at all: enumeration yields the empty set
EmptyStore == \A c \in Checksums : store[c] = "absent"

\* C14: over a store whose enumeration is empty no commit is traversed and
\* no object is loaded or checksummed, phase 3 never fails, and the run
\* succeeds unless the pack phase fails.
C14_EmptyStore ==
  EmptyStore =>
    /\ ListObjects(store, repo_mode) = {}
    /\ objects = {} /\ commits = {} /\ reachable_objects = {}
    /\ loaded = {} /\ compared = {}
    /\ pc \in {"traverse", "verify"} => hash_iter = {}
    /\ Len(output) >= 2 => output[2] = VERIFYING_CONTENT(0)
    /\ ~(pc = "done" /\ Len(output) = 2)
    /\ (pc = "done" /\ Len(output) = 3 /\ error.kind # "list packs" /\ AllPacksPass)
         => ret = TRUE

\* a run over the empty store with no pack has succeeded
C14_Witness ==
  /\ Succeeded
  /\ EmptyStore
  /\ pack_indexes = <<>>
  /\ Len(output) = 3

(* --------------------- traversal before verification ------------------- *)
\* C15: in phase 3 every enumerated commit is traversed before the first
\* object is loaded for verification: while commits are being traversed
\* nothing has been loaded or compared, the verification loop runs over
\* the complete reachable set, and a run in which the traversal of a commit
\* fails has ended in failure with that error and has verified nothing.
C15_TraverseThenVerify ==
  /\ pc = "traverse" => (loaded = {} /\ compared = {})
  /\ (pc = "verify" \/ loaded # {} \/ compared # {}) =>
        /\ Reach.ok
        /\ reachable_objects = ReferencedBy(commits)
        /\ loaded \subseteq reachable_objects
        /\ compared \subseteq loaded
  /\ pc = "verify" => hash_iter \subseteq reachable_objects
  /\ error.kind = "traverse" =>
        (pc = "done" /\ ret = FALSE /\ loaded = {} /\ compared = {} /\ Len(output) = 2)
  /\ (pc = "done" /\ PastEnumeration /\ ~Reach.ok) => error.kind = "traverse"

\* of two commits one was traversed, then the traversal of the other failed
C15_Witness ==
  /\ pc = "done"
  /\ error.kind = "traverse"
  /\ Cardinality(commits) = 2
  /\ reachable_objects # {}

(* ---------------------------- dispatch by type ------------------------- *)
\* the domain the claim assigns to each type: files and archived file
\* metadata share the raw-file domain, metadata objects keep their own type
ClaimedDomain(objtype) ==
  CASE objtype = RAW_FILE -> RAW_FILE
    [] objtype = ARCHIVED_FILE_META -> RAW_FILE
    [] OTHER -> objtype

\* the checksum of a stored object digested in the claimed domain
DigestInClaimedDomain(name) ==
  ComputedChecksum(store, name.checksum, name.objtype, ClaimedDomain(name.objtype))

\* the object the run reported as corrupted, if any
ReportedCorrupt ==
  IF error.kind = "corrupted object"
  THEN {ObjectName(error.checksum, error.objtype)} ELSE {}

\* C16: archived file content entries are passed over: they are never
\* loaded or compared and passing over one changes neither verdict nor
\* error; every other entry compared was digested in the raw-file domain if
\* it is a raw file or archived file metadata and under its own type if it
\* is a commit, dirtree or dirmeta: the comparison reported it exactly when
\* that digest differs from its name, with that digest.
C16_TypeDispatch ==
  /\ [](/\ \A name \in loaded \cup compared : name.objtype # ARCHIVED_FILE_CONTENT
        /\ ReportedCorrupt \subseteq compared
        /\ \A name \in compared :
              IF name \in ReportedCorrupt
              THEN /\ error.actual = DigestInClaimedDomain(name)
                   /\ error.actual # name.checksum
              ELSE DigestInClaimedDomain(name) = name.checksum)
  /\ [][(/\ pc = "verify"
         /\ \E key \in hash_iter :
               key.objtype = ARCHIVED_FILE_CONTENT /\ hash_iter' = hash_iter \ {key})
         => UNCHANGED <<pc, ret, error, loaded, compared, store>>]_vars

\* in an archive repository the metadata entry of a file was compared and
\* its content entry passed over, and the run succeeded
C16_Witness ==
  /\ Succeeded
  /\ repo_mode = ARCHIVE
  /\ ObjectName("f1", ARCHIVED_FILE_META) \in compared
  /\ ObjectName("f1", ARCHIVED_FILE_CONTENT) \in reachable_objects
  /\ ObjectName("c2", COMMIT) \in compared

(* ---------------------- validation before checksum --------------------- *)
\* the store is consistent and complete except that object x is in
\* condition k
OnlyFault(x, k) ==
  /\ store[x] = k
  /\ \A c \in Checksums \ {x} : store[c] \in {"ok", "absent"}
  /\ Reach.ok
  /\ \A name \in Reach.acc : ~LoadFails(store, name.checksum)
  /\ \E name \in Reach.acc : name.checksum = x

\* C17: structural validation runs after the load and before the checksum
\* is recomputed: no structurally invalid object is ever compared, every
\* compared object was loaded, and when the only fault of the store is an
\* object both structurally invalid and checksum-mismatched, a run that
\* reaches phase 3 fails there with the structural error, having loaded
\* the object and not compared it.
C17_ValidateBeforeChecksum ==
  /\ compared \subseteq loaded
  /\ \A name \in compared : ~StructureInvalid(store, name.checksum)
  /\ error.kind = "structure" => (pc = "done" /\ ret = FALSE /\ Len(output) = 2)
  /\ \A x \in Checksums :
        (pc = "done" /\ PastEnumeration /\ OnlyFault(x, "invalid_corrupt")) =>
           /\ ret = FALSE
           /\ error = Err("structure", "", "", "")
           /\ \E name \in loaded : name.checksum = x
           /\ \A name \in compared : name.checksum # x

\* a run over a store whose tree t1 is both invalid and altered has ended
\* after comparing some other object
C17_Witness ==
  /\ pc = "done"
  /\ OnlyFault("t1", "invalid_corrupt")
  /\ error.kind = "structure"
  /\ compared # {}

(* ------------------------------ termination ---------------------------- *)
\* one step of a loop deals with exactly one entry not dealt with before,
\* or leaves the loop
LoopStepVisitsOne ==
  /\ pc \in {"traverse", "verify"} =>
        \/ pc' # pc
        \/ \E key \in hash_iter : hash_iter' = hash_iter \ {key}
  /\ pc \in {"packs"} =>
        \/ pc' # pc
        \/ (i < Len(pack_indexes) /\ i' = i + 1 /\ pack_indexes' = pack_indexes)

\* what is left to do: the phases still ahead, then the entries the
\* current loop has not visited
PhasesAhead ==
  CASE pc = "parse" -> 8 [] pc = "repo_check" -> 7 [] pc = "enumerate" -> 6
    [] pc = "partition" -> 5 [] pc = "traverse" -> 4 [] pc = "verify" -> 3
    [] pc = "pack_list" -> 2 [] pc = "packs" -> 1 [] OTHER -> 0
EntriesAhead ==
  IF pc \in {"traverse", "verify"} THEN Cardinality(hash_iter)
  ELSE IF pc = "packs" THEN Len(pack_indexes) - i
  ELSE 0

\* the run is at a position from which its next step is taken
Running ==
  pc \in {"parse", "repo_check", "enumerate", "partition", "traverse", "verify",
          "pack_list", "packs"}

\* C18 (as stated): every run ends in a success or failure state: a run
\* that has not returned success or failure is still running, every step
\* leaves strictly less to do, and each loop step visits one entry not
\* visited before.
C18_Original ==
  /\ [](pc = "done" \/ Running)
  /\ [][/\ LoopStepVisitsOne
        /\ PhasesAhead' <= PhasesAhead
        /\ PhasesAhead' = PhasesAhead => EntriesAhead' < EntriesAhead]_vars

(* --------------------------- order independence ------------------------ *)
\* what a run is given, described without reference to any order: the set
\* of stored objects the stored commits depend on, the set of listed packs,
\* and whether a call on the environment failed
DependedOn == Closure({c \in CommitSums : store[c] # "absent"})
ListedPacks == {pack_indexes[j] : j \in 1..Len(pack_indexes)}
EnvironmentFailed == error.kind \in {"option", "repo", "list", "list packs"}

\* the verdict as a function of what the run is given
VerdictOf ==
  /\ ~EnvironmentFailed
  /\ \A x \in DependedOn : store[x] = "ok"
  /\ \A p \in ListedPacks : p.kind = "ok"

\* the run is over
Ended == pc \in {"done", "crashed", "assert_failed"}

\* C19: the verdict does not depend on the order in which the hash tables
\* yield commits and reachable objects nor on the order in which the packs
\* are listed: whatever order a run followed, it ended in success exactly
\* when the order-free verdict of its store and packs is success.
C19_VerdictOrderFree ==
  Ended => (Succeeded <=> VerdictOf)

\* a failed run that met its one faulty object last, after comparing every
\* other reachable object of two commits
C19_Witness ==
  /\ pc = "done"
  /\ ret = FALSE
  /\ error.kind = "corrupted object"
  /\ Cardinality(commits) = 2
  /\ AllCompared

(* ------------------------------- assertions ---------------------------- *)
\* C20: the assertions of the driver never fail: once the partition step
\* has run the commits table holds exactly the enumerated names of type
\* commit, so every traversed root is a commit, and every entry of the
\* reachable set has one of the six object types, so the type dispatch
\* never falls through to an unreachable branch.
C20_AssertionsHold ==
  /\ pc # "assert_failed"
  /\ commits = (IF PastEnumeration THEN StoreCommits ELSE {})
  /\ \A key \in commits : key.objtype = COMMIT
  /\ \A key \in reachable_objects : key.objtype \in ObjectTypes
  /\ pc \in {"traverse", "verify"} =>
        \A key \in hash_iter :
           IF pc = "traverse" THEN key.objtype = COMMIT
           ELSE key.objtype \in ObjectTypes

\* two commits of an archive repository were partitioned out, traversed and
\* every reachable entry dispatched
C20_Witness ==
  /\ Succeeded
  /\ repo_mode = ARCHIVE
  /\ Cardinality(commits) = 2
  /\ Cardinality({key.objtype : key \in reachable_objects}) = 5

====
